---- MODULE Spec2Model ----
(***************************************************************************)
(* Model of surveyqa's report assembly: core.makeplots, its helper         *)
(* core.write_night_linkage_and_calendar, core.check_offline_files,        *)
(* calendar.make_calendar_html and the per-night worker nightly.makeplots  *)
(* with nightly.get_night_link.                                            *)
(*                                                                         *)
(* Python strings are modelled as sequences of one-character strings so    *)
(* that slicing, concatenation, regular-expression matching and the        *)
(* lexicographic order of str are computed as the code computes them.      *)
(***************************************************************************)
EXTENDS Integers, Sequences, FiniteSets, TLC

(***************************************************************************)
(* Bounds of the model                                                     *)
(***************************************************************************)
\* longest nights argument (of write_night_linkage_and_calendar and of makeplots)
MaxLen == 2
\* largest number of files in outdir before the first direct call of
\* write_night_linkage_and_calendar
MaxFiles == 2
\* number of direct calls of write_night_linkage_and_calendar in a behaviour
MaxCalls == 2
\* largest number of rows of the exposures table handed to makeplots
MaxRows == 2
\* largest number of files in outdir before a makeplots run
MaxRunFiles == 1
MaxTable == 3

(***************************************************************************)
(* Strings                                                                 *)
(***************************************************************************)
Digits == {"0", "1", "2", "3", "4", "5", "6", "7", "8", "9"}

\* the characters that occur in the model, in code point order
CharOrder ==
    <<"-", ".", "0", "1", "2", "3", "4", "5", "6", "7", "8", "9",
      "a", "b", "c", "d", "e", "f", "g", "h", "i", "j", "k", "l", "m",
      "n", "o", "p", "q", "r", "s", "t", "u", "v", "w", "x", "y", "z">>

Code(c) == CHOOSE i \in 1..Len(CharOrder) : CharOrder[i] = c

Min(a, b) == IF a < b THEN a ELSE b

\* Python's s[lo:hi] (0-based, hi exclusive, clipped to the length of s)
Slice(s, lo, hi) == SubSeq(s, lo + 1, Min(hi, Len(s)))

\* Python's a < b on str: the first differing character decides, a proper
\* prefix is smaller
StrLess(a, b) ==
    LET m == Min(Len(a), Len(b))
        D == {i \in 1..m : a[i] # b[i]}
    IN  IF D = {} THEN Len(a) < Len(b)
        ELSE LET i == CHOOSE j \in D : \A k \in D : j <= k
             IN  Code(a[i]) < Code(b[i])

\* the nights (values of the NIGHT column) used as inputs
N1 == <<"2", "0", "2", "0", "0", "1", "0", "1">>
N2 == <<"2", "0", "2", "0", "0", "1", "0", "2">>
N3 == <<"2", "0", "2", "0", "0", "1", "0", "3">>
N4 == <<"2", "0", "2", "0", "0", "1", "0", "4">>
\* nights whose pages may lie in outdir
NightKeys == {N1, N2, N3, N4}
\* nights of the nights arguments (of write_night_linkage_and_calendar and of
\* makeplots)
ArgNights == {N1, N3}
\* values of the NIGHT column of the exposures handed to makeplots
RunNights == {N1, N2, N3}

none == <<"n", "o", "n", "e">>

\* "night-"+key+".html" (core.py) and 'night-{}.html'.format(night) (nightly.py)
pageHref(key) == <<"n", "i", "g", "h", "t", "-">> \o key \o <<".", "h", "t", "m", "l">>

\* the key "n"+night of linking.js
nKey(night) == <<"n">> \o night

kFirst == <<"f", "i", "r", "s", "t">>
kLast == <<"l", "a", "s", "t">>

\* names in outdir that are no night pages but begin like one: a page name
\* with too few digits, a page name with trailing characters
ShortPage == <<"n", "i", "g", "h", "t", "-", "1", "2", "3", ".", "h", "t", "m", "l">>
BakPage == pageHref(N2) \o <<".", "b", "a", "k">>
\* the files outdir may hold before a direct call
FileNames == {pageHref(N1), pageHref(N2), pageHref(N4), ShortPage, BakPage}
\* the files outdir may hold before a makeplots run
RunFileNames == {pageHref(N1), pageHref(N2), ShortPage, BakPage}

(***************************************************************************)
(* Python lists and dicts                                                  *)
(***************************************************************************)
Range(s) == {s[i] : i \in 1..Len(s)}

\* all sequences over S of length at most n
SeqUpTo(S, n) == UNION {[1..k -> S] : k \in 0..n}

\* all orders in which the members of S can be listed
Perms(S) == {p \in [1..Cardinality(S) -> S] : Range(p) = S}

\* list(dict.fromkeys(s)): the first occurrence of every element, in order
RECURSIVE fromkeys(_)
fromkeys(s) ==
    IF s = <<>> THEN <<>>
    ELSE LET r == fromkeys(SubSeq(s, 1, Len(s) - 1))
             x == s[Len(s)]
         IN  IF x \in Range(r) THEN r ELSE Append(r, x)

RECURSIVE insert(_, _)
insert(x, s) ==
    IF s = <<>> THEN <<x>>
    ELSE IF StrLess(x, s[1]) THEN <<x>> \o s
    ELSE <<s[1]>> \o insert(x, Tail(s))

\* list.sort() on a list of str
RECURSIVE sort(_)
sort(s) == IF s = <<>> THEN <<>> ELSE insert(s[Len(s)], sort(SubSeq(s, 1, Len(s) - 1)))

\* a JSON value of file_js: a string, or the inner dict {"prev":.., "next":..}
Nil == <<>>
JStr(s) == [str |-> s, prev |-> Nil, next |-> Nil]
JObj(p, n) == [str |-> Nil, prev |-> p, next |-> n]

\* d[k] = v on a Python dict, kept as the sequence of its items in insertion
\* order (the order json.dumps writes them in)
DictSet(d, k, v) ==
    IF \E i \in 1..Len(d) : d[i].key = k
    THEN [i \in 1..Len(d) |-> IF d[i].key = k THEN [key |-> k, val |-> v] ELSE d[i]]
    ELSE Append(d, [key |-> k, val |-> v])

DictKeys(d) == {d[i].key : i \in 1..Len(d)}
DictGet(d, k) == d[CHOOSE i \in 1..Len(d) : d[i].key = k].val


(***************************************************************************)
(* The regular expression and the integer conversion                       *)
(***************************************************************************)
\* re.compile("night-[0-9]+.html").match(fn): anchored at the start only;
\* "[0-9]+" is one or more digits, "." is any one character, and whatever
\* follows "html" is not looked at
regex_match(fn) ==
    /\ Len(fn) >= 12
    /\ SubSeq(fn, 1, 6) = <<"n", "i", "g", "h", "t", "-">>
    /\ \E k \in 1..(Len(fn) - 11) :
          /\ \A i \in 7..(6 + k) : fn[i] \in Digits
          /\ SubSeq(fn, 8 + k, 11 + k) = <<"h", "t", "m", "l">>

\* does int(s) accept s (an optional minus sign and at least one digit)
int_ok(s) ==
    LET d == IF s # <<>> /\ s[1] = "-" THEN Tail(s) ELSE s
    IN  d # <<>> /\ \A i \in 1..Len(d) : d[i] \in Digits

RECURSIVE digits_value(_)
digits_value(d) ==
    IF d = <<>> THEN 0
    ELSE 10 * digits_value(SubSeq(d, 1, Len(d) - 1)) + (Code(d[Len(d)]) - Code("0"))

\* int(s) for an s that int() accepts
int(s) == IF s[1] = "-" THEN 0 - digits_value(Tail(s)) ELSE digits_value(s)

(***************************************************************************)
(* Files of outdir                                                         *)
(***************************************************************************)
\* a file of outdir: absent, or written with some data
Absent(empty) == [state |-> "absent", data |-> empty]
Written(data) == [state |-> "written", data |-> data]
\* a file opened with mode 'w' whose write failed: the old content is gone
\* and at most a part of the new text is there
Truncated(empty) == [state |-> "truncated", data |-> empty]

\* what can go wrong in the I/O of one call: nothing, or open() or write()
\* of calendar.html or of linking.js raising OSError
Faults == {"none", "calendar_open", "calendar_write", "linking_open", "linking_write"}

\* outdir is a directory that can be listed, does not exist, or exists and
\* can be written to but not listed
DirStates == {"dir", "missing", "unreadable"}

NoLinking == Absent(<<>>)
NoCalendar == Absent([list |-> <<>>, dataSource |-> <<>>])
NoSummary == Absent(<<>>)

\* content of a file that was in outdir before the first operation
PriorPage == [prev |-> Nil, next |-> Nil, first |-> Nil, last |-> Nil]

(***************************************************************************)
(* calendar.make_calendar_html                                             *)
(***************************************************************************)
\* the conversions of the two format calls succeed for every night
calendar_ok(nights_sub) ==
    \A i \in 1..Len(nights_sub) : int_ok(Slice(nights_sub[i], 4, 6))

\* calendar_html with the month of the night as it is written, 1 to 12
calendar_html_month(nights_sub) ==
    [list |-> [i \in 1..Len(nights_sub) |->
                  [year |-> Slice(nights_sub[i], 0, 4),
                   month |-> int(Slice(nights_sub[i], 4, 6)),
                   day |-> Slice(nights_sub[i], 6, Len(nights_sub[i]))]],
     dataSource |-> [i \in 1..Len(nights_sub) |->
                  [id |-> i - 1,
                   name |-> pageHref(nights_sub[i]),
                   year |-> Slice(nights_sub[i], 0, 4),
                   month |-> int(Slice(nights_sub[i], 4, 6)),
                   day |-> Slice(nights_sub[i], 6, Len(nights_sub[i]))]]]

\* the html written: one "list[new Date(..)] = 1" line and one dataSource
\* entry per element of nights_sub, in order
calendar_html(nights_sub) ==
    [list |-> [i \in 1..Len(nights_sub) |->
                  [year |-> Slice(nights_sub[i], 0, 4),
                   month |-> int(Slice(nights_sub[i], 4, 6)) - 1,
                   day |-> Slice(nights_sub[i], 6, Len(nights_sub[i]))]],
     dataSource |-> [i \in 1..Len(nights_sub) |->
                  [id |-> i - 1,
                   name |-> pageHref(nights_sub[i]),
                   year |-> Slice(nights_sub[i], 0, 4),
                   month |-> int(Slice(nights_sub[i], 4, 6)) - 1,
                   day |-> Slice(nights_sub[i], 6, Len(nights_sub[i]))]]]

\* outcome of make_calendar_html(nights_sub, outdir) on the file
\* calendar.html: the html is built first, then the file is opened with mode
\* 'w' (which empties it) and written
make_calendar_html(nights_sub, old, dir, fault) ==
    IF ~calendar_ok(nights_sub)
    THEN [raised |-> "ValueError", calendar |-> old]
    ELSE IF dir = "missing"
    THEN [raised |-> "FileNotFoundError", calendar |-> old]
    ELSE IF fault = "calendar_open"
    THEN [raised |-> "OSError", calendar |-> old]
    ELSE IF fault = "calendar_write"
    THEN [raised |-> "OSError", calendar |-> Truncated(NoCalendar.data)]
    ELSE [raised |-> "no", calendar |-> Written(calendar_html(nights_sub))]

(***************************************************************************)
(* core.write_night_linkage_and_calendar                                   *)
(***************************************************************************)
\* the names of the directory listing that the regular expression keeps
matching(names) == {fn \in names : regex_match(fn)}

\* linked_list without the sort
linked_list_nosort(nights, subset, f_existing) ==
    IF subset
    THEN fromkeys(nights \o [i \in 1..Len(f_existing) |-> Slice(f_existing[i], 6, 14)])
    ELSE nights

\* linked_list without the deduplication
linked_list_nodedup(nights, subset, f_existing) ==
    IF subset
    THEN sort(nights \o [i \in 1..Len(f_existing) |-> Slice(f_existing[i], 6, 14)])
    ELSE nights

\* linked_list with the scan of outdir done whatever subset is
linked_list_scan_always(nights, subset, f_existing) ==
    sort(fromkeys(nights \o [i \in 1..Len(f_existing) |-> Slice(f_existing[i], 6, 14)]))

\* linked_list never looking at outdir
linked_list_scan_never(nights, subset, f_existing) ==
    IF subset THEN sort(fromkeys(nights)) ELSE nights

\* the list f: the nights passed in and, for subset, the keys cut out of the
\* matching names (given in listing order), deduplicated and sorted
linked_list(nights, subset, f_existing) ==
    IF subset
    THEN sort(fromkeys(nights \o [i \in 1..Len(f_existing) |-> Slice(f_existing[i], 6, 14)]))
    ELSE nights

\* inner_dict with the links of a single night pointing at its own page
inner_dict_selflink(f, i) ==
    IF Len(f) = 1 THEN JObj(pageHref(f[1]), pageHref(f[1]))
    ELSE IF i = 0 THEN JObj(none, pageHref(f[i + 2]))
    ELSE IF i = Len(f) - 1 THEN JObj(pageHref(f[i]), none)
    ELSE JObj(pageHref(f[i]), pageHref(f[i + 2]))

\* inner_dict with prev and next exchanged
inner_dict_swapped(f, i) ==
    IF Len(f) = 1 THEN JObj(none, none)
    ELSE IF i = 0 THEN JObj(pageHref(f[i + 2]), none)
    ELSE IF i = Len(f) - 1 THEN JObj(none, pageHref(f[i]))
    ELSE JObj(pageHref(f[i + 2]), pageHref(f[i]))

\* inner_dict of loop index i (0-based)
\* inner_dict leaving "prev" out of the entry of the first night
inner_dict_noprev(f, i) ==
    IF Len(f) = 1 THEN JObj(none, none)
    ELSE IF i = 0 THEN JObj(Nil, pageHref(f[i + 2]))
    ELSE IF i = Len(f) - 1 THEN JObj(pageHref(f[i]), none)
    ELSE JObj(pageHref(f[i]), pageHref(f[i + 2]))

inner_dict(f, i) ==
    IF Len(f) = 1 THEN JObj(none, none)
    ELSE IF i = 0 THEN JObj(none, pageHref(f[i + 2]))
    ELSE IF i = Len(f) - 1 THEN JObj(pageHref(f[i]), none)
    ELSE JObj(pageHref(f[i]), pageHref(f[i + 2]))

\* file_js after the loop iterations 0..i-1
RECURSIVE link_loop(_, _)
link_loop(f, i) ==
    IF i = 0
    THEN DictSet(DictSet(<<>>, kFirst, JStr(pageHref(f[1]))), kLast, JStr(pageHref(f[Len(f)])))
    ELSE DictSet(link_loop(f, i - 1), nKey(f[i]), inner_dict(f, i - 1))

\* file_js with the loop ending one night early
file_js_short(f) == link_loop(f, Len(f) - 1)

file_js(f) == link_loop(f, Len(f))

\* write_night_linkage_and_calendar writing an empty linkage for an empty f
write_night_linkage_and_calendar_empty(nights, subset, f_existing, oldcal, oldlink, dir, fault) ==
    LET fl == linked_list(nights, subset, f_existing)
        cal == make_calendar_html(fl, oldcal, dir, fault)
    IN  IF cal.raised # "no"
        THEN [f |-> fl, raised |-> cal.raised, calendar |-> cal.calendar, linking |-> oldlink]
        ELSE IF fl = <<>>
        THEN [f |-> fl, raised |-> "no", calendar |-> cal.calendar, linking |-> Written(<<>>)]
        ELSE IF fault = "linking_open"
        THEN [f |-> fl, raised |-> "OSError", calendar |-> cal.calendar, linking |-> oldlink]
        ELSE IF fault = "linking_write"
        THEN [f |-> fl, raised |-> "OSError", calendar |-> cal.calendar,
              linking |-> Truncated(<<>>)]
        ELSE [f |-> fl, raised |-> "no", calendar |-> cal.calendar, linking |-> Written(file_js(fl))]

\* outcome of write_night_linkage_and_calendar(outdir, nights, subset) when
\* the matching names of the listing come in the order f_existing, outdir is
\* in state dir and the I/O goes wrong as fault says
write_night_linkage_and_calendar(nights, subset, f_existing, oldcal, oldlink, dir, fault) ==
    LET fl == linked_list(nights, subset, f_existing)
        cal == make_calendar_html(fl, oldcal, dir, fault)
    IN  IF cal.raised # "no"
        THEN [f |-> fl, raised |-> cal.raised, calendar |-> cal.calendar, linking |-> oldlink]
        ELSE IF fl = <<>>
        THEN [f |-> fl, raised |-> "IndexError", calendar |-> cal.calendar, linking |-> oldlink]
        ELSE IF fault = "linking_open"
        THEN [f |-> fl, raised |-> "OSError", calendar |-> cal.calendar, linking |-> oldlink]
        ELSE IF fault = "linking_write"
        THEN [f |-> fl, raised |-> "OSError", calendar |-> cal.calendar,
              linking |-> Truncated(<<>>)]
        ELSE [f |-> fl, raised |-> "no", calendar |-> cal.calendar, linking |-> Written(file_js(fl))]

(***************************************************************************)
(* core.check_offline_files                                                *)
(***************************************************************************)
Assets == {"b_js", "bt_js", "b_css", "bt_css", "boot_js", "boot_css",
           "byc_js", "byc_css", "jq_js", "p_js"}

NoAssets == [a \in Assets |-> "absent"]

isfile(offline, a) == offline[a] # "absent"

\* the condition of the if statement
offline_files_found(offline) ==
    /\ isfile(offline, "b_js") /\ isfile(offline, "bt_js")
    /\ isfile(offline, "b_css") /\ isfile(offline, "bt_js")
    /\ isfile(offline, "boot_js") /\ isfile(offline, "boot_css")
    /\ isfile(offline, "byc_js") /\ isfile(offline, "byc_css")
    /\ isfile(offline, "jq_js") /\ isfile(offline, "p_js")

\* the folder after rmtree, makedirs, the four downloads and the six copies;
\* every file holds the name of the source it was fetched or copied from
provisioned ==
    [a \in Assets |->
        CASE a = "b_js" -> "url_js"
          [] a = "bt_js" -> "url_tables_js"
          [] a = "b_css" -> "url_css"
          [] a = "bt_css" -> "url_tables_css"
          [] a = "boot_css" -> "source_boot_js"
          [] a = "jq_js" -> "source_boot_css"
          [] a = "p_js" -> "source_byc_js"
          [] a = "boot_js" -> "source_byc_css"
          [] a = "byc_css" -> "source_jq_js"
          [] a = "byc_js" -> "source_p_js"]

check_offline_files(offline) ==
    IF offline_files_found(offline) THEN offline ELSE provisioned

(***************************************************************************)
(* nightly.get_night_link and nightly.makeplots                            *)
(***************************************************************************)
\* list(np.unique(exposures['NIGHT'])) and sorted(set(exposures['NIGHT']))
unique_nights(exposures) == sort(fromkeys(exposures))

\* 0-based unique_nights.index(night)
index(u, night) == (CHOOSE i \in 1..Len(u) : u[i] = night) - 1

\* get_night_link raises IndexError at unique_nights[ind+1]
get_night_link_raises(night, exposures) ==
    LET u == unique_nights(exposures)
    IN  index(u, night) = 0 /\ Len(u) = 1

\* [prev_str, next_str]
get_night_link(night, exposures) ==
    LET u == unique_nights(exposures)
        ind == index(u, night)
        prev_night == IF ind = 0 THEN night ELSE u[ind]
        next_night == IF ind = Len(u) - 1 THEN night ELSE u[ind + 2]
    IN  <<pageHref(prev_night), pageHref(next_night)>>

\* one of the three calls of get_night_link in nightly.makeplots raises
night_page_raises(night, exposures) ==
    \/ get_night_link_raises(night, exposures)
    \/ get_night_link_raises(exposures[1], exposures)
    \/ get_night_link_raises(exposures[Len(exposures)], exposures)

\* the navigation hrefs rendered into the page of night
night_page(night, exposures) ==
    [prev |-> get_night_link(night, exposures)[1],
     next |-> get_night_link(night, exposures)[2],
     first |-> get_night_link(exposures[1], exposures)[1],
     last |-> get_night_link(exposures[Len(exposures)], exposures)[2]]

(***************************************************************************)
(* State                                                                   *)
(***************************************************************************)
VARIABLES
    pages,          \* outdir: file name -> content, for the files other than
                    \* linking.js, calendar.html, summary.html
    linking,        \* outdir/linking.js
    calendar,       \* outdir/calendar.html
    summary,        \* outdir/summary.html
    offline,        \* outdir/offline_files: asset -> content
    f,              \* the list f of the latest call of write_night_linkage_and_calendar
    call,           \* arguments, listing and outcome of that call
    ncalls,         \* direct calls of write_night_linkage_and_calendar so far
    pc,             \* position of makeplots
    raised,         \* the exception makeplots ended with
    args,           \* arguments of the makeplots run
    exposures_sub,  \* NIGHT column of exposures_sub
    tasks,          \* night -> state of its task in the pool
    fs0,            \* the files of outdir when the makeplots run started
    outdir,         \* the directory outdir itself: a member of DirStates
    hourangle       \* an hour angle in degrees, before or after change_range

vars == <<pages, linking, calendar, summary, offline, f, call, ncalls, pc,
          raised, args, exposures_sub, tasks, fs0, outdir, hourangle>>

files == [pages |-> pages, linking |-> linking, calendar |-> calendar,
          summary |-> summary, offline |-> offline]

NoCall == [op |-> "none", nights |-> <<>>, subset |-> FALSE, names |-> {},
           raised |-> "no", repeated |-> FALSE, fault |-> "none"]
NoArgs == [exposures |-> <<>>, given |-> FALSE, nights |-> <<>>, show_summary |-> "no",
           again |-> FALSE]

\* an hour angle that no operation has touched
NoHourAngle == [at |-> "none", raw |-> 0, value |-> 0]

\* outdir is in state dir and holds the files of S, the hour angle is ha,
\* nothing has been called yet
InitAll(S, assets, dir, ha) ==
    /\ outdir = dir
    /\ hourangle = ha
    /\ pages = [fn \in S |-> PriorPage]
    /\ linking = NoLinking
    /\ calendar = NoCalendar
    /\ summary = NoSummary
    /\ offline = assets
    /\ f = <<>>
    /\ call = NoCall
    /\ ncalls = 0
    /\ pc = "idle"
    /\ raised = "no"
    /\ args = NoArgs
    /\ exposures_sub = <<>>
    /\ tasks = <<>>
    /\ fs0 = [pages |-> [fn \in S |-> PriorPage], linking |-> NoLinking,
              calendar |-> NoCalendar, summary |-> NoSummary, offline |-> assets]

\* outdir is in state dir and holds the files of S
InitDir(S, assets, dir) == InitAll(S, assets, dir, NoHourAngle)

\* outdir is a directory that can be listed and holds the files of S
InitWith(S, assets) == InitDir(S, assets, "dir")

(***************************************************************************)
(* write_night_linkage_and_calendar as an operation                        *)
(***************************************************************************)
\* the filenames walk(outdir) yields: walk swallows the error of a directory
\* it cannot list and yields nothing
listing == IF outdir = "dir" THEN DOMAIN pages ELSE {}

\* the call making an empty page for every night of f that has none
LinkageEnv_makes_pages(nights, subset, fault) ==
    \E f_existing \in Perms(matching(listing)) :
        \E r \in {write_night_linkage_and_calendar(nights, subset, f_existing, calendar,
                                                    linking, outdir, fault)} :
            /\ f' = r.f
            /\ calendar' = r.calendar
            /\ linking' = r.linking
            /\ call' = [op |-> "linkage", nights |-> nights, subset |-> subset,
                        names |-> listing, raised |-> r.raised,
                        repeated |-> /\ call.op = "linkage"
                                     /\ call.nights = nights
                                     /\ call.subset = subset
                                     /\ call.names = listing,
                        fault |-> fault]
            /\ pages' = [fn \in DOMAIN pages \cup {pageHref(k) : k \in Range(r.f)} |->
                            IF fn \in DOMAIN pages THEN pages[fn] ELSE PriorPage]
            /\ UNCHANGED <<summary, offline, outdir>>

\* the effect of write_night_linkage_and_calendar(outdir, nights, subset) on
\* the files, for every order in which walk(outdir) may list the names (the
\* filter of the listing keeps the order, so the orders of f_existing are the
\* orders of the matching names)
LinkageEnv(nights, subset, fault) ==
    \E f_existing \in Perms(matching(listing)) :
        \E r \in {write_night_linkage_and_calendar(nights, subset, f_existing, calendar,
                                                    linking, outdir, fault)} :
            /\ f' = r.f
            /\ calendar' = r.calendar
            /\ linking' = r.linking
            /\ call' = [op |-> "linkage", nights |-> nights, subset |-> subset,
                        names |-> listing, raised |-> r.raised,
                        \* the call before had the same arguments and listing
                        repeated |-> /\ call.op = "linkage"
                                     /\ call.nights = nights
                                     /\ call.subset = subset
                                     /\ call.names = listing,
                        fault |-> fault]
            /\ UNCHANGED <<pages, summary, offline, outdir>>

\* the call when no I/O goes wrong
Linkage(nights, subset) == LinkageEnv(nights, subset, "none")

\* a caller calls write_night_linkage_and_calendar(outdir, nights, subset)
CallLinkage(nights, subset) ==
    /\ pc = "idle"
    /\ ncalls < MaxCalls
    /\ ncalls' = ncalls + 1
    /\ Linkage(nights, subset)
    /\ UNCHANGED <<pc, raised, args, exposures_sub, tasks, fs0, hourangle>>

InitLinkage ==
    \E S \in SUBSET FileNames : Cardinality(S) <= MaxFiles /\ InitWith(S, NoAssets)

NextLinkage ==
    \E nights \in SeqUpTo(ArgNights, MaxLen), subset \in BOOLEAN : CallLinkage(nights, subset)

\* direct calls of write_night_linkage_and_calendar on an outdir with any files
SpecLinkage == InitLinkage /\ [][NextLinkage]_vars

\* a caller calls write_night_linkage_and_calendar(outdir, nights, subset)
\* and the I/O of the call goes wrong as fault says
CallLinkageEnv(nights, subset, fault) ==
    /\ pc = "idle"
    /\ ncalls < MaxCalls
    /\ ncalls' = ncalls + 1
    /\ LinkageEnv(nights, subset, fault)
    /\ UNCHANGED <<pc, raised, args, exposures_sub, tasks, fs0, hourangle>>

\* outdir is missing (and then holds nothing), or holds any files and can or
\* cannot be listed
InitEnv ==
    \E S \in SUBSET FileNames, dir \in DirStates :
        /\ Cardinality(S) <= MaxFiles
        /\ dir = "missing" => S = {}
        /\ InitDir(S, NoAssets, dir)

NextEnv ==
    \E nights \in SeqUpTo(ArgNights, MaxLen), subset \in BOOLEAN, fault \in Faults :
        CallLinkageEnv(nights, subset, fault)

\* direct calls of write_night_linkage_and_calendar on any outdir, with I/O
\* that may fail
SpecEnv == InitEnv /\ [][NextEnv]_vars

(***************************************************************************)
(* core.makeplots                                                          *)
(***************************************************************************)
ShowSummary == {"all", "subset", "no", "bogus"}

\* a member of the nights argument: a python str or a python int
PyStr(s) == [type |-> "str", int |-> 0, str |-> s]
PyInt(n) == [type |-> "int", int |-> n, str |-> <<>>]

\* the decimal digits of a natural number
RECURSIVE decimal(_)
decimal(n) ==
    LET d == CHOOSE c \in Digits : Code(c) - Code("0") = n % 10
    IN  IF n < 10 THEN <<d>> ELSE decimal(n \div 10) \o <<d>>

\* str(i) of a member of the nights argument
str(i) == IF i.type = "str" THEN i.str ELSE decimal(i.int)

\* the nights a caller lists: one as an int, one as a str
RunArgNights == {PyInt(int(N1)), PyStr(N3)}

\* the rows between the least and the greatest listed night
exposures_selected_between(exposures, given, nights) ==
    IF given
    THEN LET strs == {str(nights[i]) : i \in DOMAIN nights}
         IN  SelectSeq(exposures, LAMBDA x :
                 /\ \E lo \in strs : lo = x \/ StrLess(lo, x)
                 /\ \E hi \in strs : hi = x \/ StrLess(x, hi))
    ELSE exposures

\* exposures_sub: the rows of exposures whose NIGHT is in [str(i) for i in
\* nights], or every row when nights is None
exposures_selected(exposures, given, nights) ==
    IF given
    THEN LET strs == {str(nights[i]) : i \in DOMAIN nights}
         IN  SelectSeq(exposures, LAMBDA x : x \in strs)
    ELSE exposures

\* makeplots(exposures, tiles, outdir, show_summary, nights) is called;
\* given = FALSE is nights = None
MP_Call(exposures, given, nights, show_summary) ==
    /\ pc = "idle"
    /\ ncalls = 0
    /\ given = FALSE => nights = <<>>
    /\ pc' = "check_offline_files"
    /\ args' = [exposures |-> exposures, given |-> given, nights |-> nights,
                show_summary |-> show_summary, again |-> FALSE]
    /\ fs0' = files
    /\ UNCHANGED <<pages, linking, calendar, summary, offline, f, call, ncalls,
                   raised, exposures_sub, tasks,
                   outdir, hourangle>>

\* check_offline_files(outdir), then the rows of exposures_sub are selected
MP_CheckOffline ==
    /\ pc = "check_offline_files"
    /\ offline' = check_offline_files(offline)
    \* os.makedirs(path, exist_ok=True) makes outdir as well
    /\ outdir' = IF ~offline_files_found(offline) /\ outdir = "missing" THEN "dir" ELSE outdir
    /\ exposures_sub' = exposures_selected(args.exposures, args.given, args.nights)
    /\ pc' = "summary"
    /\ UNCHANGED <<pages, linking, calendar, summary, f, call, ncalls, raised,
                   args, tasks, fs0, hourangle>>

\* the summary page made from the other table in each mode
MP_Summary_swapped ==
    /\ pc = "summary"
    /\ IF args.show_summary = "subset"
       THEN summary' = Written(args.exposures) /\ pc' = "linkage" /\ UNCHANGED raised
       ELSE IF args.show_summary = "all"
       THEN summary' = Written(exposures_sub) /\ pc' = "linkage" /\ UNCHANGED raised
       ELSE IF args.show_summary # "no"
       THEN pc' = "raised" /\ raised' = "ValueError" /\ UNCHANGED summary
       ELSE pc' = "linkage" /\ UNCHANGED <<summary, raised>>
    /\ UNCHANGED <<pages, linking, calendar, offline, f, call, ncalls, args,
                   exposures_sub, tasks, fs0,
                   outdir, hourangle>>

\* the summary page is made from the table show_summary selects, or
\* ValueError is raised
MP_Summary ==
    /\ pc = "summary"
    /\ IF args.show_summary = "subset"
       THEN summary' = Written(exposures_sub) /\ pc' = "linkage" /\ UNCHANGED raised
       ELSE IF args.show_summary = "all"
       THEN summary' = Written(args.exposures) /\ pc' = "linkage" /\ UNCHANGED raised
       ELSE IF args.show_summary # "no"
       THEN pc' = "raised" /\ raised' = "ValueError" /\ UNCHANGED summary
       ELSE pc' = "linkage" /\ UNCHANGED <<summary, raised>>
    /\ UNCHANGED <<pages, linking, calendar, offline, f, call, ncalls, args,
                   exposures_sub, tasks, fs0,
                   outdir, hourangle>>

\* write_night_linkage_and_calendar(outdir, nights_sub, nights != None), and
\* the tasks of the pool are made
MP_Linkage ==
    /\ pc = "linkage"
    /\ Linkage(unique_nights(exposures_sub), args.given)
    /\ IF call'.raised = "no"
       THEN /\ pc' = "starmap"
            /\ tasks' = [n \in Range(unique_nights(exposures_sub)) |-> "pending"]
            /\ UNCHANGED raised
       ELSE /\ pc' = "raised"
            /\ raised' = call'.raised
            /\ UNCHANGED tasks
    /\ UNCHANGED <<ncalls, args, exposures_sub, fs0, hourangle>>

\* a pool process takes the task of night and computes the navigation links
Worker_Start(night) ==
    /\ pc = "starmap"
    /\ night \in DOMAIN tasks
    /\ tasks[night] = "pending"
    /\ tasks' = [tasks EXCEPT ![night] =
                    IF night_page_raises(night, exposures_sub) THEN "failed" ELSE "running"]
    /\ UNCHANGED <<pages, linking, calendar, summary, offline, f, call, ncalls,
                   pc, raised, args, exposures_sub, fs0,
                   outdir, hourangle>>

\* the process writes outdir/night-<night>.html
Worker_Write(night) ==
    /\ pc = "starmap"
    /\ night \in DOMAIN tasks
    /\ tasks[night] = "running"
    /\ pages' = [fn \in DOMAIN pages \cup {pageHref(night)} |->
                    IF fn = pageHref(night) THEN night_page(night, exposures_sub)
                    ELSE pages[fn]]
    /\ tasks' = [tasks EXCEPT ![night] = "done"]
    /\ UNCHANGED <<linking, calendar, summary, offline, f, call, ncalls, pc,
                   raised, args, exposures_sub, fs0,
                   outdir, hourangle>>

\* makeplots running the linkage step again once the pool has ended
MP_Return_relink ==
    /\ pc = "starmap"
    /\ \A n \in DOMAIN tasks : tasks[n] = "done"
    /\ pc' = "returned"
    /\ Linkage(unique_nights(exposures_sub), args.given)
    /\ UNCHANGED <<ncalls, raised, args, exposures_sub, tasks, fs0, hourangle>>

\* starmap has every result; pool.close(), pool.join(), makeplots returns
MP_Return ==
    /\ pc = "starmap"
    /\ \A n \in DOMAIN tasks : tasks[n] = "done"
    /\ pc' = "returned"
    /\ UNCHANGED <<pages, linking, calendar, summary, offline, f, call, ncalls,
                   raised, args, exposures_sub, tasks, fs0,
                   outdir, hourangle>>

\* starmap raises the exception of a failed task once all tasks have ended
MP_StarmapRaise ==
    /\ pc = "starmap"
    /\ \A n \in DOMAIN tasks : tasks[n] \in {"done", "failed"}
    /\ \E n \in DOMAIN tasks : tasks[n] = "failed"
    /\ pc' = "raised"
    /\ raised' = "IndexError"
    /\ UNCHANGED <<pages, linking, calendar, summary, offline, f, call, ncalls,
                   args, exposures_sub, tasks, fs0,
                   outdir, hourangle>>

\* outdir before its first run: any files, no assets yet
Init ==
    \E S \in SUBSET RunFileNames :
        Cardinality(S) <= MaxRunFiles /\ InitWith(S, NoAssets)

Next ==
    \/ \E exposures \in SeqUpTo(RunNights, MaxRows), given \in BOOLEAN,
          nights \in SeqUpTo(RunArgNights, MaxLen), show_summary \in ShowSummary :
            MP_Call(exposures, given, nights, show_summary)
    \/ MP_CheckOffline
    \/ MP_Summary
    \/ MP_Linkage
    \/ \E night \in RunNights : Worker_Start(night)
    \/ \E night \in RunNights : Worker_Write(night)
    \/ MP_Return
    \/ MP_StarmapRaise

\* one run of makeplots on an outdir with any files
Spec == Init /\ [][Next]_vars

(***************************************************************************)
(* Runs of makeplots one after the other                                   *)
(***************************************************************************)
\* the table every run is given, and the nights a caller lists
RunsTable == <<N1, N2, N3>>
RunsArgNights == {PyInt(int(N1)), PyStr(N2), PyStr(N3)}

\* after a run has returned makeplots is called again on the same outdir,
\* with a night list; again says that the arguments are those of the run
\* before
MP_CallAgain(exposures, nights, show_summary) ==
    /\ pc = "returned"
    /\ pc' = "check_offline_files"
    /\ args' = [exposures |-> exposures, given |-> TRUE, nights |-> nights,
                show_summary |-> show_summary,
                again |-> /\ args.exposures = exposures
                          /\ args.given
                          /\ args.nights = nights
                          /\ args.show_summary = show_summary]
    /\ fs0' = files
    /\ tasks' = <<>>
    /\ UNCHANGED <<pages, linking, calendar, summary, offline, f, call, ncalls,
                   raised, exposures_sub, outdir, hourangle>>

\* the first run finds outdir empty
InitRuns == InitWith({}, NoAssets)

NextRuns ==
    \/ \E nights \in SeqUpTo(RunsArgNights, MaxLen) : MP_Call(RunsTable, TRUE, nights, "no")
    \/ \E nights \in SeqUpTo(RunsArgNights, MaxLen) : MP_CallAgain(RunsTable, nights, "no")
    \/ MP_CheckOffline
    \/ MP_Summary
    \/ MP_Linkage
    \/ \E night \in RunNights : Worker_Start(night)
    \/ \E night \in RunNights : Worker_Write(night)
    \/ MP_Return
    \/ MP_StarmapRaise

\* any number of makeplots runs with night lists on an outdir that starts
\* empty
SpecRuns == InitRuns /\ [][NextRuns]_vars

(***************************************************************************)
(* makeplots: the hour angle column                                        *)
(***************************************************************************)
\* degrees of a full and of a half turn
FullTurn == 360
HalfTurn == 180

\* change_range(i) of makeplots, on whole degrees
change_range(i) ==
    IF i > HalfTurn THEN i - FullTurn
    ELSE IF i < 0 - HalfTurn THEN FullTurn + i
    ELSE i

\* LST is a remainder modulo 360 and RA a right ascension, both in
\* [0, 360): LST - RA lies strictly between -360 and 360
RawHourAngles == {lst - ra : lst \in 0..(FullTurn - 1), ra \in 0..(FullTurn - 1)}

\* np.vectorize(change_range) is applied to one value of the column
ChangeRange ==
    /\ hourangle.at = "raw"
    /\ hourangle' = [at |-> "changed", raw |-> hourangle.raw,
                     value |-> change_range(hourangle.raw)]
    /\ UNCHANGED <<pages, linking, calendar, summary, offline, f, call, ncalls,
                   pc, raised, args, exposures_sub, tasks, fs0, outdir>>

InitHourAngle ==
    \E h \in RawHourAngles :
        InitAll({}, NoAssets, "dir", [at |-> "raw", raw |-> h, value |-> h])

NextHourAngle == ChangeRange

\* change_range on every raw hour angle
SpecHourAngle == InitHourAngle /\ [][NextHourAngle]_vars

(***************************************************************************)
(* nightly.makeplots as an operation                                       *)
(***************************************************************************)
\* a caller calls nightly.makeplots(night, exposures, tiles, outdir) with a
\* night of the table; exposures_sub keeps the NIGHT column of that table
NightlyMakeplots(night, exposures) ==
    /\ pc = "idle"
    /\ night \in Range(exposures)
    /\ exposures_sub' = exposures
    /\ call' = [NoCall EXCEPT !.op = "nightly", !.nights = <<night>>]
    /\ IF night_page_raises(night, exposures)
       THEN pc' = "raised" /\ raised' = "IndexError" /\ UNCHANGED pages
       ELSE /\ pc' = "returned"
            /\ pages' = [fn \in DOMAIN pages \cup {pageHref(night)} |->
                            IF fn = pageHref(night) THEN night_page(night, exposures)
                            ELSE pages[fn]]
            /\ UNCHANGED raised
    /\ UNCHANGED <<linking, calendar, summary, offline, f, ncalls, args, tasks, fs0,
                   outdir, hourangle>>

InitNightly == InitWith({}, NoAssets)

NextNightly ==
    \E exposures \in SeqUpTo(NightKeys, MaxTable), night \in NightKeys :
        NightlyMakeplots(night, exposures)

\* one call of nightly.makeplots on a table with its rows in any order
SpecNightly == InitNightly /\ [][NextNightly]_vars

(***************************************************************************)
(* check_offline_files as an operation                                     *)
(***************************************************************************)
\* a caller calls check_offline_files(outdir); fs0 keeps the files as they
\* were before the call
CheckOffline ==
    /\ pc = "idle"
    /\ offline' = check_offline_files(offline)
    /\ fs0' = files
    /\ call' = [NoCall EXCEPT !.op = "check_offline_files"]
    /\ UNCHANGED <<pages, linking, calendar, summary, f, ncalls, pc, raised, args,
                   exposures_sub, tasks, outdir, hourangle>>

\* offline_files holds any of the ten assets, left there by someone
InitOffline ==
    \E assets \in [Assets -> {"absent", "old"}] : InitWith({}, assets)

NextOffline == CheckOffline

\* calls of check_offline_files on an offline_files folder with any assets
SpecOffline == InitOffline /\ [][NextOffline]_vars


(***************************************************************************)
(* Properties of write_night_linkage_and_calendar                          *)
(***************************************************************************)
\* the latest call of write_night_linkage_and_calendar returned normally
LinkageOk == call.op = "linkage" /\ call.raised = "no"

\* ascending without repeats
StrictlySorted(s) == \A i, j \in 1..Len(s) : i < j => StrLess(s[i], s[j])

NoRepeats(s) == \A i, j \in 1..Len(s) : i # j => s[i] # s[j]

\* the "n"+night keys of linking.js
NightEntries == DictKeys(linking.data) \ {kFirst, kLast}

\* the entry of a night in linking.js
entry(night) == DictGet(linking.data, nKey(night))

\* C1: for a non-empty, sorted, duplicate-free f of length n the linkage
\* written has exactly n per-night entries, one "n"+night per night of f,
\* first is the page of f[0] and last the page of f[n-1]
C1_EntriesFirstLast ==
    (LinkageOk /\ f # <<>> /\ StrictlySorted(f)) =>
        /\ Len(linking.data) = Len(f) + 2
        /\ NightEntries = {nKey(f[i]) : i \in 1..Len(f)}
        /\ Cardinality(NightEntries) = Len(f)
        /\ DictGet(linking.data, kFirst) = JStr(pageHref(f[1]))
        /\ DictGet(linking.data, kLast) = JStr(pageHref(f[Len(f)]))

C1_Witness ==
    /\ LinkageOk
    /\ StrictlySorted(f)
    /\ Len(f) >= 3
    /\ linking.state = "written"
    /\ Len(linking.data) = Len(f) + 2

\* C2: when f holds exactly one night, its entry has prev = next = "none"
C2_SingleNightNone ==
    (LinkageOk /\ Len(f) = 1) =>
        /\ nKey(f[1]) \in NightEntries
        /\ entry(f[1]).prev = none
        /\ entry(f[1]).next = none

C2_Witness ==
    /\ LinkageOk
    /\ Len(f) = 1
    /\ linking.state = "written"
    /\ entry(f[1]) = JObj(none, none)

\* C3: when f has n >= 2 nights (n entries naming n nights), entry i has
\* prev = page of f[i-1], or "none" for i = 0, and next = page of f[i+1], or
\* "none" for i = n-1
C3_PrevNext ==
    (LinkageOk /\ Len(f) >= 2 /\ NoRepeats(f)) =>
        \A i \in 1..Len(f) :
            /\ nKey(f[i]) \in NightEntries
            /\ entry(f[i]).prev = (IF i > 1 THEN pageHref(f[i - 1]) ELSE none)
            /\ entry(f[i]).next = (IF i < Len(f) THEN pageHref(f[i + 1]) ELSE none)

C3_Witness ==
    /\ LinkageOk
    /\ Len(f) >= 3
    /\ NoRepeats(f)
    /\ entry(f[2]).prev = pageHref(f[1])
    /\ entry(f[2]).next = pageHref(f[3])

\* the keys the scan of a subset call recovered from the listing
Recovered == {Slice(fn, 6, 14) : fn \in matching(call.names)}

\* C4: in subset mode f is the ascending, duplicate-free union of the nights
\* passed in and the keys recovered from outdir; every night page on disk is
\* in f, and in the linkage written the neighbours of a night are its
\* neighbours in that union
C4_SubsetUnion ==
    (call.op = "linkage" /\ call.subset) =>
        /\ StrictlySorted(f)
        /\ Range(f) = Range(call.nights) \cup Recovered
        /\ \A k \in NightKeys : pageHref(k) \in call.names => k \in Range(f)
        /\ LinkageOk =>
              \A i \in 1..Len(f) :
                  /\ i > 1 => entry(f[i]).prev = pageHref(f[i - 1])
                  /\ i < Len(f) => entry(f[i]).next = pageHref(f[i + 1])

\* in scope 20200101, 20200103 and on disk 20200102, 20200104
C4_Witness ==
    /\ LinkageOk
    /\ call.subset
    /\ call.nights = <<N1, N3>>
    /\ call.names = {pageHref(N2), pageHref(N4)}
    /\ f = <<N1, N2, N3, N4>>
    /\ entry(N2) = JObj(pageHref(N1), pageHref(N3))

\* C5: in non-subset mode f is the nights passed in and the linkage written
\* names those nights only, whatever outdir holds
C5_NonSubsetIgnoresOutdir ==
    (call.op = "linkage" /\ ~call.subset) =>
        /\ f = call.nights
        /\ LinkageOk =>
              /\ NightEntries = {nKey(k) : k \in Range(call.nights)}
              /\ DictGet(linking.data, kFirst) = JStr(pageHref(call.nights[1]))
              /\ DictGet(linking.data, kLast) = JStr(pageHref(call.nights[Len(call.nights)]))

\* a non-subset call on an outdir that holds the page of another night
C5_Witness ==
    /\ LinkageOk
    /\ ~call.subset
    /\ \E k \in NightKeys : pageHref(k) \in call.names /\ k \notin Range(call.nights)
    /\ f = call.nights

\* C6: for any nights argument and either value of subset, f is
\* duplicate-free and sorted ascending
C6_AlwaysSorted == call.op = "linkage" => StrictlySorted(f)

\* C7: a call with the same nights and subset as the call before, on the
\* same files, both returning normally, leaves linking.js as the call before
\* wrote it, whatever the orders of the two listings
C7_Idempotent ==
    [][(ncalls' = ncalls + 1 /\ call'.repeated /\ call.raised = "no" /\ call'.raised = "no")
          => linking' = linking]_vars

\* the second of two equal subset calls on an outdir with several pages
C7_Witness ==
    /\ LinkageOk
    /\ call.repeated
    /\ call.subset
    /\ Cardinality(matching(call.names)) >= 2
    /\ linking.state = "written"

\* C8: a call whose f is empty raises, and linking.js is as before the call
C8_EmptyRaises ==
    [][(ncalls' = ncalls + 1 /\ f' = <<>>)
          => (call'.raised # "no" /\ linking' = linking)]_vars

\* an empty call after a call that wrote linking.js
C8_Witness ==
    /\ call.op = "linkage"
    /\ f = <<>>
    /\ call.raised = "IndexError"
    /\ linking.state = "written"

(***************************************************************************)
(* Properties of makeplots                                                 *)
(***************************************************************************)
\* C9: when makeplots raises for an unknown show_summary, no file of outdir
\* has been created, changed or deleted since the call
C9_NoIOBeforeValueError ==
    (pc = "raised" /\ args.show_summary \notin {"all", "subset", "no"}) => files = fs0

\* the nights whose pages the run is to make
InScope == Range(exposures_sub)

\* C10: a run of makeplots over a non-empty set of nights ends by returning,
\* with every task of the pool done and the page of every night in outdir
C10_PageForEveryNight ==
    (pc \in {"returned", "raised"} /\ DOMAIN tasks # {}) =>
        /\ pc = "returned"
        /\ \A n \in InScope : tasks[n] = "done" /\ pageHref(n) \in DOMAIN pages

(***************************************************************************)
(* makeplots: the table of the summary page and the nights of the run      *)
(***************************************************************************)

\* a listed night and a NIGHT value have the same text: a str by equality,
\* an int when the text is its decimal numeral without leading zeros
SameText(i, x) ==
    IF i.type = "str"
    THEN i.str = x
    ELSE int_ok(x) /\ int(x) = i.int /\ (Len(x) = 1 \/ x[1] # "0")

\* the NIGHT value x is one of the nights the caller listed
Listed(x) == \E i \in DOMAIN args.nights : SameText(args.nights[i], x)

\* the rows of the exposures argument of the requested nights
RequestedRows ==
    IF args.given THEN SelectSeq(args.exposures, Listed) ELSE args.exposures

\* the summary step of the run is over and did not raise
SummaryDone == pc \in {"linkage", "starmap", "returned"} \/ (pc = "raised" /\ call.op = "linkage")

\* C11: show_summary alone selects the table of the summary page: "all" the
\* full table, "subset" the rows of the requested nights (the full table
\* without a night list), "no" no call, so that summary.html is as it was
\* before the run.
C11_SummaryTable ==
    SummaryDone =>
        /\ args.show_summary = "all" => summary = Written(args.exposures)
        /\ args.show_summary = "subset" => summary = Written(RequestedRows)
        /\ args.show_summary = "no" => summary = fs0.summary

\* C11 witness: a run in "subset" mode that has made the summary page from
\* fewer rows than the table has, one of them listed as an int.
C11_Witness ==
    /\ SummaryDone
    /\ args.show_summary = "subset"
    /\ args.given
    /\ summary.state = "written"
    /\ summary.data # <<>>
    /\ Len(summary.data) < Len(args.exposures)

\* C12: the nights makeplots links and renders are the distinct NIGHT values
\* of the exposures whose text is the text of a listed night (all distinct
\* NIGHT values without a list), ascending and without repeats; a listed
\* night without exposure adds nothing.
C12_NightsOfRun ==
    (call.op = "linkage" /\ pc \in {"starmap", "returned", "raised"}) =>
        /\ Range(call.nights) = {x \in Range(args.exposures) : args.given => Listed(x)}
        /\ StrictlySorted(call.nights)
        /\ pc \in {"starmap", "returned"} => DOMAIN tasks = Range(call.nights)

\* C12 witness: a run with a list that names one night of the table as an
\* int and one night the table does not have, on a table with a night that
\* is not listed.
C12_Witness ==
    /\ call.op = "linkage"
    /\ pc = "starmap"
    /\ args.given
    /\ \E i \in DOMAIN args.nights :
          args.nights[i].type = "int" /\ str(args.nights[i]) \in DOMAIN tasks
    /\ \E i \in DOMAIN args.nights : str(args.nights[i]) \notin Range(args.exposures)
    /\ \E x \in Range(args.exposures) : x \notin DOMAIN tasks

(***************************************************************************)
(* write_night_linkage_and_calendar when the I/O fails                     *)
(***************************************************************************)

\* C13: in subset mode, when outdir cannot be listed (it does not exist or
\* cannot be read), the recovered set is empty and the call still completes,
\* writing the linkage of the nights passed in alone.
C13_ScanFailureNotFatal ==
    (/\ call.op = "linkage"
     /\ call.subset
     /\ call.fault = "none"
     /\ outdir # "dir"
     /\ call.nights # <<>>) =>
        /\ call.names = {}
        /\ call.raised = "no"
        /\ linking = Written(file_js(sort(fromkeys(call.nights))))

(***************************************************************************)
(* The scan of outdir                                                      *)
(***************************************************************************)

\* the whole filename is "night-", eight digits, ".html"
WellFormed(fn) ==
    /\ Len(fn) = 19
    /\ SubSeq(fn, 1, 6) = <<"n", "i", "g", "h", "t", "-">>
    /\ \A i \in 7..14 : fn[i] \in Digits
    /\ SubSeq(fn, 15, 19) = <<".", "h", "t", "m", "l">>

\* C14: the scan recovers a key from a filename exactly when the whole name
\* is "night-", eight digits, ".html", and the key is those eight digits;
\* any other name adds no key.
C14_ExactPattern ==
    (call.op = "linkage" /\ call.subset) =>
        /\ \A fn \in call.names : WellFormed(fn) => SubSeq(fn, 7, 14) \in Range(f)
        /\ \A k \in Range(f) :
              \/ k \in Range(call.nights)
              \/ \E fn \in call.names : WellFormed(fn) /\ k = SubSeq(fn, 7, 14)

(***************************************************************************)
(* The object written to linking.js                                        *)
(***************************************************************************)

\* the hrefs of the nights of f
Hrefs == {pageHref(k) : k \in Range(f)}

\* C15: the object written to linking.js has exactly the keys "first",
\* "last" and one "n"+night per night of f; the value of each "n"+night key
\* holds exactly a prev and a next, each either "none" or the href
\* night-<key>.html of a night of f.
C15_LinkingShape ==
    LinkageOk =>
        /\ linking.state = "written"
        /\ DictKeys(linking.data) = {kFirst, kLast} \cup {nKey(k) : k \in Range(f)}
        /\ Len(linking.data) = Cardinality(DictKeys(linking.data))
        /\ \A i \in 1..Len(linking.data) :
              linking.data[i].key \notin {kFirst, kLast} =>
                  /\ linking.data[i].val.str = Nil
                  /\ linking.data[i].val.prev \in Hrefs \cup {none}
                  /\ linking.data[i].val.next \in Hrefs \cup {none}

\* C15 witness: a linkage written for an f of several nights that is not
\* in ascending order.
C15_Witness ==
    /\ LinkageOk
    /\ Len(f) >= 2
    /\ ~StrictlySorted(f)
    /\ linking = Written(file_js(f))

(***************************************************************************)
(* makeplots: the linkage step and the workers                             *)
(***************************************************************************)

\* the pages a worker of this run has written
WrittenByRun == {fn \in DOMAIN pages : pages[fn] # PriorPage}

\* a worker of this run has started
WorkerStarted == \E n \in DOMAIN tasks : tasks[n] # "pending"

\* C16: in a run of makeplots the linkage step, scan included, is complete
\* before any worker writes a page, and the listing of outdir is not read
\* again once the workers run: what the scan saw is what was there before
\* the run, never a page written by a worker of the run.
C16_LinkageBeforeWorkers ==
    /\ [](WorkerStarted \/ WrittenByRun # {} =>
             /\ LinkageOk
             /\ linking = Written(file_js(f))
             /\ calendar = Written(calendar_html(f)))
    /\ [](call.op = "linkage" => call.names = DOMAIN fs0.pages)
    /\ [][call' # call => pc = "linkage" /\ ~WorkerStarted /\ WrittenByRun = {}]_vars

\* C16 witness: a run with a night list has returned; one worker has
\* written over a page that was there before, another a page the scan did
\* not see.
C16_Witness ==
    /\ pc = "returned"
    /\ args.given
    /\ \E n \in DOMAIN tasks : pageHref(n) \in DOMAIN fs0.pages /\ pageHref(n) \in WrittenByRun
    /\ \E n \in DOMAIN tasks : pageHref(n) \notin call.names /\ pageHref(n) \in WrittenByRun

\* the pool of the run has ended
PoolEnded == pc \in {"returned", "raised"} /\ DOMAIN tasks # {}

\* C17: every worker of a run writes exactly one file, night-<its
\* night>.html, no two workers write the same file, and no worker writes
\* linking.js, calendar.html or summary.html; so outdir ends the same
\* whatever the interleaving of the workers.
C17_OneFilePerWorker ==
    /\ [](PoolEnded =>
             /\ \A n \in DOMAIN tasks : pageHref(n) \in WrittenByRun
             /\ \A n, m \in DOMAIN tasks : pageHref(n) = pageHref(m) => n = m
             /\ pages = [fn \in DOMAIN fs0.pages \cup {pageHref(n) : n \in DOMAIN tasks} |->
                            IF \E n \in DOMAIN tasks : fn = pageHref(n)
                            THEN night_page(CHOOSE n \in DOMAIN tasks : fn = pageHref(n),
                                            exposures_sub)
                            ELSE fs0.pages[fn]])
    /\ [][(pc = "starmap" /\ pc' = "starmap") =>
             /\ UNCHANGED <<linking, calendar, summary, offline>>
             /\ \A fn \in DOMAIN pages' :
                   (fn \notin DOMAIN pages \/ pages'[fn] # pages[fn]) =>
                       \E n \in DOMAIN tasks :
                           /\ fn = pageHref(n)
                           /\ tasks[n] = "running"
                           /\ tasks'[n] = "done"]_vars

(***************************************************************************)
(* The days calendar.html marks                                            *)
(***************************************************************************)

\* the value of a numeral in the script of calendar.html: digits after a
\* leading 0 are octal when none of them is 8 or 9, decimal otherwise
RECURSIVE octal_value(_)
octal_value(d) ==
    IF d = <<>> THEN 0
    ELSE 8 * octal_value(SubSeq(d, 1, Len(d) - 1)) + (Code(d[Len(d)]) - Code("0"))

js_number(s) ==
    IF Len(s) > 1 /\ s[1] = "0" /\ \A i \in 1..Len(s) : s[i] \notin {"8", "9"}
    THEN octal_value(s)
    ELSE digits_value(s)

\* the day (year, month 1..12, day of month) that new Date(year, month, day)
\* of an entry denotes: the months of Date count from 0
MarkedDay(e) == <<js_number(e.year), e.month + 1, js_number(e.day)>>

\* the day a night key YYYYMMDD names
NightDay(k) == <<int(Slice(k, 0, 4)), int(Slice(k, 4, 6)), int(Slice(k, 6, 8))>>

\* the call has written calendar.html
CalendarOk == call.op = "linkage" /\ call.raised \in {"no", "IndexError"}

\* C18: calendar.html marks exactly the nights of f: each night of f gives
\* exactly one marked day, whose link target is night-<night>.html, and no
\* other day is marked.
C18_CalendarMarksF ==
    CalendarOk =>
        LET list == calendar.data.list
            dataSource == calendar.data.dataSource
            days == {NightDay(k) : k \in Range(f)}
        IN  /\ calendar.state = "written"
            /\ {MarkedDay(list[i]) : i \in DOMAIN list} = days
            /\ {MarkedDay(dataSource[i]) : i \in DOMAIN dataSource} = days
            /\ Cardinality(days) = Cardinality(Range(f))
            /\ \A i \in DOMAIN dataSource :
                  \E k \in Range(f) :
                      /\ NightDay(k) = MarkedDay(dataSource[i])
                      /\ dataSource[i].name = pageHref(k)

\* C18 witness: a calendar written for an f of several nights, one of them
\* recovered by the scan.
C18_Witness ==
    /\ CalendarOk
    /\ call.subset
    /\ Len(f) >= 2
    /\ \E k \in Range(f) : k \notin Range(call.nights)
    /\ Len(calendar.data.dataSource) = Len(f)

(***************************************************************************)
(* The hour angle                                                          *)
(***************************************************************************)

\* C19: for every raw hour angle h with -360 < h < 360, change_range gives
\* the value in (-180, 180] that is congruent to h modulo 360; the result is
\* never -180 and never outside that interval.
C19_HalfOpenRange ==
    hourangle.at = "changed" =>
        /\ hourangle.value > 0 - HalfTurn
        /\ hourangle.value <= HalfTurn
        /\ (hourangle.value - hourangle.raw) % FullTurn = 0

(***************************************************************************)
(* linking.js when the call fails                                          *)
(***************************************************************************)

\* C20: when write_night_linkage_and_calendar fails at any point (an empty
\* night set, a failure opening or writing linking.js), linking.js is
\* afterwards either the complete linkage of the call or exactly what it was
\* before the call (or absent as before); never empty, truncated or partial.
C20_LinkingAllOrNothing ==
    [][(ncalls' # ncalls /\ call'.raised # "no") =>
          \/ linking' = linking
          \/ linking' = Written(file_js(f'))]_vars

(***************************************************************************)
(* The assets of offline_files                                             *)
(***************************************************************************)

\* C21: check_offline_files takes the assets as present only if every one
\* of the ten expected files exists in offline_files; if one is missing it
\* provisions again, and after it returns all ten exist.
C21_AllTenAssets ==
    call.op = "check_offline_files" =>
        /\ offline = fs0.offline => \A a \in Assets : isfile(fs0.offline, a)
        /\ \A a \in Assets : isfile(offline, a)

\* the call has provisioned the assets
Provisioned == call.op = "check_offline_files" /\ ~offline_files_found(fs0.offline)

\* C30: when check_offline_files provisions the calendar assets, each file
\* of offline_files gets the content of the source file of its own name:
\* bootstrap.js, bootstrap.css, bootstrap-year-calendar.js and .css,
\* jquery_min.js and popper_min.js.
C30_AssetsFromNamesakes ==
    Provisioned =>
        /\ offline["boot_js"] = "source_boot_js"
        /\ offline["boot_css"] = "source_boot_css"
        /\ offline["byc_js"] = "source_byc_js"
        /\ offline["byc_css"] = "source_byc_css"
        /\ offline["jq_js"] = "source_jq_js"
        /\ offline["p_js"] = "source_p_js"

(***************************************************************************)
(* The navigation of the night pages                                       *)
(***************************************************************************)

\* C22: no navigation link of a night points at the page of that night,
\* neither prev and next of its entry in linking.js nor Previous and Next
\* of its page; a missing neighbour is "none".
C22_NoSelfLinks ==
    /\ LinkageOk =>
          \A k \in Range(f) :
              /\ entry(k).prev # pageHref(k)
              /\ entry(k).next # pageHref(k)
    /\ \A n \in DOMAIN tasks :
          pageHref(n) \in WrittenByRun =>
              /\ pages[pageHref(n)].prev # pageHref(n)
              /\ pages[pageHref(n)].next # pageHref(n)

(***************************************************************************)
(* What write_night_linkage_and_calendar leaves alone                      *)
(***************************************************************************)

\* C23: write_night_linkage_and_calendar never creates, deletes or changes
\* a night page: the filenames of outdir that match the night-page pattern
\* are the same after the call as before, whether it succeeds or fails; it
\* writes calendar.html and linking.js only.
C23_PagesUntouched ==
    [][ncalls' # ncalls =>
          /\ pages' = pages
          /\ matching(DOMAIN pages') = matching(DOMAIN pages)
          /\ summary' = summary
          /\ offline' = offline]_vars

\* C23 witness: a call has failed after writing calendar.html, on an outdir
\* that holds night pages.
C23_Witness ==
    /\ call.op = "linkage"
    /\ call.raised # "no"
    /\ calendar.state = "written"
    /\ matching(DOMAIN pages) # {}

(***************************************************************************)
(* The chain of prev and next                                              *)
(***************************************************************************)

\* the nights of f, each once, ascending
Ascending == sort(fromkeys(f))

\* C24: in every linkage written prev and next are inverse of each other
\* and form one chain: entry[a].next is the page of b exactly when
\* entry[b].prev is the page of a; one entry has prev "none", the night
\* first points at, and one has next "none", the night last points at;
\* following next from first visits every night of f once, ascending, and
\* ends at last.
C24_SingleChain ==
    LinkageOk =>
        /\ \A a, b \in Range(f) :
              entry(a).next = pageHref(b) <=> entry(b).prev = pageHref(a)
        /\ {pageHref(a) : a \in {k \in Range(f) : entry(k).prev = none}}
              = {DictGet(linking.data, kFirst).str}
        /\ {pageHref(a) : a \in {k \in Range(f) : entry(k).next = none}}
              = {DictGet(linking.data, kLast).str}
        /\ DictGet(linking.data, kFirst).str = pageHref(Ascending[1])
        /\ \A i \in 1..Len(Ascending) :
              entry(Ascending[i]).next =
                  (IF i < Len(Ascending) THEN pageHref(Ascending[i + 1]) ELSE none)
        /\ DictGet(linking.data, kLast).str = pageHref(Ascending[Len(Ascending)])

(***************************************************************************)
(* The links of linking.js and the pages of outdir                         *)
(***************************************************************************)

\* every href linking.js holds: first, last, and each prev and next that
\* is not "none"
LinkedHrefs ==
    {linking.data[i].val.str : i \in {j \in DOMAIN linking.data :
                                        linking.data[j].key \in {kFirst, kLast}}}
    \cup ({linking.data[i].val.prev : i \in {j \in DOMAIN linking.data :
                                        linking.data[j].key \notin {kFirst, kLast}}}
          \ {none})
    \cup ({linking.data[i].val.next : i \in {j \in DOMAIN linking.data :
                                        linking.data[j].key \notin {kFirst, kLast}}}
          \ {none})

\* C25: after a makeplots run that returns normally every href of
\* linking.js names a night page that exists in outdir, whatever outdir
\* held before and in both modes: no link dangles.
C25_NoDanglingLinks ==
    pc = "returned" => LinkedHrefs \subseteq DOMAIN pages

\* the neighbour a navigation href of the page of night n designates: the
\* page of another night, or none when the href is "none" or the page itself
Designated(href, n) == IF href = pageHref(n) THEN none ELSE href

\* C26: for every night page rendered in a makeplots run, Previous and Next
\* of the page designate the neighbours that linking.js of the same run
\* records as prev and next of that night, in subset mode as in non-subset
\* mode.
C26_PageNavMatchesLinking ==
    \A n \in DOMAIN tasks :
        pageHref(n) \in WrittenByRun =>
            /\ Designated(pages[pageHref(n)].prev, n) = entry(n).prev
            /\ Designated(pages[pageHref(n)].next, n) = entry(n).next

(***************************************************************************)
(* calendar.html and linking.js together                                   *)
(***************************************************************************)

\* C28: after a call of write_night_linkage_and_calendar calendar.html and
\* linking.js describe the same nights: when the call succeeds both list
\* exactly f, and when it fails (f is empty, say) the call has created or
\* changed neither file.
C28_CalendarAndLinkingAgree ==
    [][ncalls' # ncalls =>
          IF call'.raised = "no"
          THEN /\ calendar' = Written(calendar_html(f'))
               /\ linking' = Written(file_js(f'))
          ELSE /\ calendar' = calendar
               /\ linking' = linking]_vars

(***************************************************************************)
(* First and Last of a night page                                          *)
(***************************************************************************)

\* C29: in every night page First is the page of the smallest night and
\* Last the page of the largest night of the table handed to the worker,
\* whatever the order of its rows.
C29_FirstLastOfTable ==
    (call.op = "nightly" /\ pc = "returned") =>
        LET u == unique_nights(exposures_sub)
            page == pages[pageHref(call.nights[1])]
        IN  /\ page.first = pageHref(u[1])
            /\ page.last = pageHref(u[Len(u)])

(***************************************************************************)
(* linking.js over runs of makeplots                                       *)
(***************************************************************************)

\* the nights that have a night page in outdir
PageNights == {k \in NightKeys : pageHref(k) \in DOMAIN pages}

\* C27: over any sequence of makeplots runs with night lists on an outdir
\* that starts empty, each returning normally: after every run the nights
\* with an entry in linking.js are the nights with a page in outdir, which
\* are those of the runs so far (the pages there before the run and the
\* nights this run rendered); a night once linked is never dropped by a
\* later run; running the last run again changes nothing in linking.js.
C27_LinkingFollowsPages ==
    /\ [](pc = "returned" =>
             /\ linking.state = "written"
             /\ NightEntries = {nKey(k) : k \in PageNights}
             /\ DOMAIN pages = DOMAIN fs0.pages \cup {pageHref(n) : n \in DOMAIN tasks})
    /\ [][NightEntries \subseteq NightEntries']_vars
    /\ [][(pc = "linkage" /\ args.again) => linking' = linking]_vars

\* C27 witness: a run has been run a second time and has returned, and
\* outdir holds the pages of three nights, which no single run rendered.
C27_Witness ==
    /\ pc = "returned"
    /\ args.again
    /\ Cardinality(PageNights) = 3
    /\ Cardinality(DOMAIN tasks) = 2
    /\ Cardinality(NightEntries) = 3

====
